---- MODULE Spec2Model ----
(***************************************************************************)
(* Model of official/vision/beta/projects/centernet/ops/preprocess_ops.py. *)
(*                                                                         *)
(* Every operation of the file is a pure function of its arguments.  The   *)
(* state machine is the label pipeline that calls them: from "idle" it     *)
(* calls one operation with arguments drawn from bounded sets, the state   *)
(* then holds the call (fn, args) and what the call produced (result), and    *)
(* Return goes back to "idle".                                             *)
(*                                                                         *)
(* Tensors are records [shape, data]: data is the row-major flattening,    *)
(* as the array library stores it.  Multi-indices are 0-based tuples;      *)
(* TLA+ sequences are 1-based, so position i of a tuple is axis i-1.       *)
(***************************************************************************)
EXTENDS Integers, Sequences, FiniteSets, TLC

VARIABLES fn, args, result

vars == <<fn, args, result>>

(***************************************************************************)
(* Bounds of the model.                                                    *)
(***************************************************************************)
MaxSeqLen == 3      \* cartesian_product: longest input sequence
MaxDim == 3         \* draw_gaussian: largest heatmap height and width
MaxRadius == 2      \* draw_gaussian, _gaussian_penalty: largest radius
MaxOut == 3         \* draw_gaussian: how far outside the heatmap a centre may lie
MaxLen == 3         \* pad_max_instances: largest size of an axis of value
MaxImage == 5       \* letter_box: largest image height and width
MaxTarget == 8      \* letter_box: largest target_dim
MaxSize == 5        \* gaussian_radius: largest box height and width
MaxDen == 4         \* gaussian_radius: largest denominator of min_overlap
SqrtScale == 16     \* tf.sqrt: results are rounded down to 1/SqrtScale of the
                    \* radicand's denominator

NoValue == [none |-> TRUE]

Min(a, b) == IF a <= b THEN a ELSE b
Max(a, b) == IF a >= b THEN a ELSE b

(***************************************************************************)
(* The array library: shapes, row-major addressing, the primitives used.   *)
(***************************************************************************)
RECURSIVE ProdFrom(_, _)
\* product of shape[k..Len(shape)]
ProdFrom(shape, k) ==
    IF k > Len(shape) THEN 1 ELSE shape[k] * ProdFrom(shape, k + 1)

Size(shape) == ProdFrom(shape, 1)

\* the multi-index (0-based entries) of the 0-based flat offset f
Unravel(f, shape) ==
    [k \in 1..Len(shape) |-> (f \div ProdFrom(shape, k + 1)) % shape[k]]

RECURSIVE RavelFrom(_, _, _)
RavelFrom(idx, shape, k) ==
    IF k > Len(shape) THEN 0
    ELSE idx[k] * ProdFrom(shape, k + 1) + RavelFrom(idx, shape, k + 1)

\* the 0-based flat offset of a multi-index
Ravel(idx, shape) == RavelFrom(idx, shape, 1)

At(t, idx) == t.data[Ravel(idx, t.shape) + 1]

\* the multi-indices of a tensor of the given shape, in row-major order
Indices(shape) == [i \in 1..Size(shape) |-> Unravel(i - 1, shape)]

\* tf.meshgrid(*tensors, indexing='xy'): the first two axes are swapped
MeshgridXY(tensors) ==
    LET n == Len(tensors)
        ax(k) == IF n >= 2 /\ k <= 2 THEN 3 - k ELSE k
        shape == [k \in 1..n |-> Len(tensors[ax(k)])]
        at == Indices(shape)
    IN  [k \in 1..n |->
            [shape |-> shape,
             data  |-> [i \in 1..Len(at) |-> tensors[k][at[i][ax(k)] + 1]]]]

\* tf.meshgrid(*tensors, indexing='ij'): grid k repeats tensors[k] along axis k
Meshgrid(tensors) ==
    LET n == Len(tensors)
        shape == [k \in 1..n |-> Len(tensors[k])]
        at == Indices(shape)
    IN  [k \in 1..n |->
            [shape |-> shape,
             data  |-> [i \in 1..Len(at) |-> tensors[k][at[i][k] + 1]]]]

\* tf.stack(grids): a new leading axis
Stack(grids) ==
    LET n == Len(grids)
        shape == <<n>> \o grids[1].shape
        at == Indices(shape)
    IN  [shape |-> shape,
         data  |-> [i \in 1..Len(at) |->
                      At(grids[at[i][1] + 1], SubSeq(at[i], 2, Len(at[i])))]]

\* tf.transpose(t, perm), perm 0-based: axis i of the result is axis perm[i] of t
Transpose(t, perm) ==
    LET n == Len(t.shape)
        shape == [i \in 1..n |-> t.shape[perm[i] + 1]]
        src(idx) == [a \in 1..n |-> idx[CHOOSE i \in 1..n : perm[i] + 1 = a]]
        at == Indices(shape)
    IN  [shape |-> shape, data |-> [i \in 1..Len(at) |-> At(t, src(at[i]))]]

\* tf.reshape(t, (-1, cols)): the rows of the row-major data, cols at a time
ReshapeRows(t, cols) ==
    LET rows == Len(t.data) \div cols
    IN  [r \in 1..rows |-> [c \in 1..cols |-> t.data[(r - 1) * cols + c]]]

RECURSIVE Repeat(_, _)
\* tensors * repeat, on a Python tuple
Repeat(tensors, repeat) ==
    IF repeat <= 0 THEN <<>> ELSE tensors \o Repeat(tensors, repeat - 1)

(***************************************************************************)
(* cartesian_product                                                       *)
(***************************************************************************)
cartesian_product(tensors, repeat) ==
    LET ts == Repeat(tensors, repeat)
        n == Len(ts)
        perm == [i \in 1..n + 1 |-> IF i <= n THEN i ELSE 0]
    IN  ReshapeRows(Transpose(Stack(Meshgrid(ts)), perm), n)

\* tf.range(start, limit) with the default delta 1: start, ..., limit - 1
Range(start, limit) == [i \in 1..Max(limit - start, 0) |-> start + i - 1]

\* the Range op requires start <= limit when delta > 0 and raises otherwise
RangeRaises(start, limit) == start > limit

NumTensors == {1, 2, 3}
Repeats == {1, 2}
InputSeqs ==
    {Range(a, a + l) : a \in 0..1, l \in 1..MaxSeqLen} \cup {<<1, 0>>, <<2, 2>>}

CallCartesianProduct ==
    /\ fn = "idle"
    /\ \E n \in NumTensors, repeat \in Repeats :
         /\ n * repeat \in NumTensors
         /\ \E tensors \in [1..n -> InputSeqs] :
              /\ fn' = "cartesian_product"
              /\ args' = [tensors |-> tensors, repeat |-> repeat]
              /\ result' = cartesian_product(tensors, repeat)

(***************************************************************************)
(* Floating point values.  The exponent of the kernel is the exact         *)
(* fraction -n/d, or one of the IEEE special results of a division by      *)
(* zero; a kernel value is s * exp(-n/d) kept symbolically (n/d in lowest  *)
(* terms, so exp(-0/d) is the one value 1.0), NaN, or 0.0.                 *)
(***************************************************************************)
RECURSIVE GCD(_, _)
GCD(a, b) == IF b = 0 THEN a ELSE GCD(b, a % b)

NaN == [kind |-> "nan", s |-> 0, n |-> 0, d |-> 1]
Zero == [kind |-> "zero", s |-> 0, n |-> 0, d |-> 1]
ExpVal(n, d) ==
    LET g == GCD(n, d) IN [kind |-> "val", s |-> 1, n |-> n \div g, d |-> d \div g]
One == ExpVal(0, 1)

\* num / den for num <= 0 and den >= 0, both exact fractions <<p, q>>, q > 0:
\* IEEE gives NaN for 0/0 and -inf for a negative number over 0
FloatDiv(num, den) ==
    IF den[1] = 0
    THEN IF num[1] = 0 THEN [kind |-> "nan", n |-> 0, d |-> 1]
         ELSE [kind |-> "neginf", n |-> 0, d |-> 1]
    ELSE [kind |-> "fin", n |-> (-num[1]) * den[2], d |-> num[2] * den[1]]

\* tf.math.exp
Exp(e) ==
    CASE e.kind = "nan" -> NaN
      [] e.kind = "neginf" -> Zero
      [] OTHER -> ExpVal(e.n, e.d)

\* gaussian * scaling_factor, elementwise
Scale(v, factor) ==
    CASE v.kind = "nan" -> NaN
      [] v.kind = "zero" -> Zero
      [] OTHER -> IF factor = 0 THEN Zero ELSE [v EXCEPT !.s = v.s * factor]

(***************************************************************************)
(* _gaussian_penalty: the (2 radius + 1) x (2 radius + 1) kernel, as its   *)
(* sequence of rows.                                                       *)
(***************************************************************************)
_gaussian_penalty(radius) ==
    LET width == 2 * radius + 1
        sigma == <<radius, 3>>
        range_width == [i \in 1..width |-> (i - 1) - radius]
        \* x varies along axis 0 (i), y along axis 1 (j)
        den == <<2 * sigma[1] * sigma[1], sigma[2] * sigma[2]>>
        exponent(i, j) ==
            FloatDiv(<<-1 * (range_width[i] * range_width[i])
                       - (range_width[j] * range_width[j]), 1>>, den)
    IN  [i \in 1..width |-> [j \in 1..width |-> Exp(exponent(i, j))]]

CallGaussianPenalty ==
    /\ fn = "idle"
    /\ \E radius \in 0..MaxRadius + 1 :
         /\ fn' = "_gaussian_penalty"
         /\ args' = [radius |-> radius]
         /\ result' = _gaussian_penalty(radius)

(***************************************************************************)
(* draw_gaussian                                                           *)
(***************************************************************************)
\* a begin or end of a tensor slice: a negative index counts from the end,
\* and the result is clamped to [0, n]
Canonical(i, n) == LET j == IF i < 0 THEN i + n ELSE i IN Max(0, Min(j, n))

\* s[begin:end] (0-based, end exclusive); empty when end <= begin
Slice(s, begin, end) ==
    LET lo == Canonical(begin, Len(s))
        hi == Canonical(end, Len(s))
    IN  [i \in 1..Max(hi - lo, 0) |-> s[lo + i]]

\* m[r0:r1, c0:c1] of a matrix given as its rows
Slice2D(m, r0, r1, c0, c1) ==
    LET rows == Slice(m, r0, r1)
    IN  [i \in 1..Len(rows) |-> Slice(rows[i], c0, c1)]

RECURSIVE Flatten(_)
\* tf.reshape(m, [-1]) of a matrix given as its rows
Flatten(m) == IF m = <<>> THEN <<>> ELSE Head(m) \o Flatten(Tail(m))

Cells(hm_shape) ==
    (0..hm_shape[1] - 1) \X (0..hm_shape[2] - 1) \X (0..hm_shape[3] - 1)

\* tf.zeros(shape=hm_shape)
Zeros(hm_shape) == [cell \in Cells(hm_shape) |-> Zero]

\* tf.tensor_scatter_nd_update(tensor, indices, updates): the op rejects
\* index and update lists of different lengths, and (on the CPU kernel) an
\* index outside the tensor; otherwise the last update of a cell wins
tensor_scatter_nd_update(tensor, indices, updates) ==
    IF \/ Len(indices) # Len(updates)
       \/ \E k \in 1..Len(indices) : indices[k] \notin DOMAIN tensor
    THEN [raised |-> TRUE, heatmap |-> <<>>]
    ELSE [raised |-> FALSE,
          heatmap |-> [cell \in DOMAIN tensor |->
              LET hits == {k \in 1..Len(indices) : indices[k] = cell}
              IN  IF hits = {} THEN tensor[cell]
                  ELSE updates[CHOOSE k \in hits : \A j \in hits : j <= k]]]

\* the clip margins without the clamp to the heatmap's edge
ClipLeftUnclamped(x, radius) == radius
ClipLeft(x, radius) == Min(x, radius)

\* the right margin without the centre column
ClipRightNoCentre(x, width, radius) == Min(width - x, radius)
ClipRight(x, width, radius) == Min(width - x, radius + 1)

ClipTop(y, radius) == Min(y, radius)

ClipBottom(y, height, radius) == Min(height - y, radius + 1)

\* the block cut from the kernel's corner instead of around its centre
ClipKernelFromCorner(gaussian, radius, top, bottom, left, right) ==
    Slice2D(gaussian, 0, top + bottom, 0, left + right)
\* gaussian[radius - top:radius + bottom, radius - left:radius + right]
ClipKernel(gaussian, radius, top, bottom, left, right) ==
    Slice2D(gaussian, radius - top, radius + bottom, radius - left, radius + right)

draw_gaussian(hm_shape, blob, scaling_factor) ==
    LET gaussian_heatmap == Zeros(hm_shape)
        obj_class == blob[1]
        x == blob[2]
        y == blob[3]
        radius == blob[4]
        height == hm_shape[1]
        width == hm_shape[2]
        left == ClipLeft(x, radius)
        right == ClipRight(x, width, radius)
        top == ClipTop(y, radius)
        bottom == ClipBottom(y, height, radius)
        gaussian == Flatten(ClipKernel(_gaussian_penalty(radius), radius,
                                       top, bottom, left, right))
        range_raised ==
            RangeRaises(y - top, y + bottom) \/ RangeRaises(x - left, x + right)
        heatmap_indices ==
            cartesian_product(<<Range(y - top, y + bottom),
                                Range(x - left, x + right),
                                <<obj_class>> >>, 1)
        updates == [k \in 1..Len(gaussian) |-> Scale(gaussian[k], scaling_factor)]
        scattered ==
            tensor_scatter_nd_update(gaussian_heatmap, heatmap_indices, updates)
        margins == [left |-> left, right |-> right, top |-> top, bottom |-> bottom]
    IN  IF range_raised
        THEN [raised |-> TRUE, error |-> "range", heatmap |-> <<>>,
              indices |-> <<>>, updates |-> updates, margins |-> margins]
        ELSE [raised |-> scattered.raised,
              error |-> IF scattered.raised THEN "scatter" ELSE "none",
              heatmap |-> scattered.heatmap,
              indices |-> heatmap_indices,
              updates |-> updates,
              margins |-> margins]

Channels == {1, 2}
ScalingFactors == {1, 2}

CallDrawGaussian ==
    /\ fn = "idle"
    /\ \E H \in 1..MaxDim, W \in 1..MaxDim, C \in Channels,
          radius \in 0..MaxRadius, scaling_factor \in ScalingFactors :
         \E obj_class \in 0..C - 1,
            x \in -MaxOut..W - 1 + MaxOut, y \in -MaxOut..H - 1 + MaxOut :
              /\ fn' = "draw_gaussian"
              /\ args' = [hm_shape |-> <<H, W, C>>,
                          blob |-> <<obj_class, x, y, radius>>,
                          scaling_factor |-> scaling_factor]
              /\ result' = draw_gaussian(<<H, W, C>>, <<obj_class, x, y, radius>>,
                                       scaling_factor)

(***************************************************************************)
(* pad_max_instances                                                       *)
(***************************************************************************)
\* the block of t that starts at offset start along axis and is size long
SliceAxis(t, axis, start, size) ==
    LET shape == [t.shape EXCEPT ![axis + 1] = size]
        at == Indices(shape)
    IN  [shape |-> shape,
         data  |-> [i \in 1..Len(at) |->
                      At(t, [at[i] EXCEPT ![axis + 1] = @ + start])]]

RECURSIVE SumSizes(_, _)
\* the sum of the first k split sizes that are given (not -1)
SumSizes(size_splits, k) ==
    IF k = 0 THEN 0
    ELSE (IF size_splits[k] = -1 THEN 0 ELSE size_splits[k])
         + SumSizes(size_splits, k - 1)

\* tf.split(value, size_splits, axis): at most one size may be -1 and is
\* inferred; the given sizes must fit the axis, and no size may be negative
Split(value, size_splits, axis) ==
    LET dim == value.shape[axis + 1]
        inferred == {k \in 1..Len(size_splits) : size_splits[k] = -1}
        determined == SumSizes(size_splits, Len(size_splits))
        sizes == [k \in 1..Len(size_splits) |->
                    IF k \in inferred THEN dim - determined ELSE size_splits[k]]
        ok == /\ Cardinality(inferred) <= 1
              /\ IF inferred = {} THEN determined = dim ELSE determined <= dim
              /\ \A k \in 1..Len(sizes) : sizes[k] >= 0
    IN  IF ~ok THEN [raised |-> TRUE, parts |-> <<>>]
        ELSE [raised |-> FALSE,
              parts |-> [k \in 1..Len(sizes) |->
                  SliceAxis(value, axis, SumSizes(sizes, k - 1), sizes[k])]]

\* tf.fill(dims, v)
Fill(dims, v) == [shape |-> dims, data |-> [i \in 1..Size(dims) |-> v]]

\* tf.concat([a, b], axis)
Concat(a, b, axis) ==
    LET shape == [a.shape EXCEPT ![axis + 1] = @ + b.shape[axis + 1]]
        at == Indices(shape)
    IN  [shape |-> shape,
         data  |-> [i \in 1..Len(at) |->
             IF at[i][axis + 1] < a.shape[axis + 1] THEN At(a, at[i])
             ELSE At(b, [at[i] EXCEPT ![axis + 1] = @ - a.shape[axis + 1]])]]

\* a negative pad_axis counts from the last axis
ResolveAxis(pad_axis, rank) == IF pad_axis < 0 THEN rank + pad_axis ELSE pad_axis

\* no truncation: every entry of the axis is kept
TakeCountAll(instances, dim1) == dim1
\* take = tf.math.reduce_min([instances, dim1])
TakeCount(instances, dim1) == Min(instances, dim1)

\* tf.math.reduce_max([instances - dim1, 0])
PadCount(instances, dim1) == Max(instances - dim1, 0)

pad_max_instances(value, instances, pad_value, pad_axis) ==
    LET shape == value.shape
        axis == ResolveAxis(pad_axis, Len(shape))
        dim1 == shape[axis + 1]
        take == TakeCount(instances, dim1)
        split == Split(value, <<take, -1>>, axis)
        pad == PadCount(instances, dim1)
        nshape == SubSeq(shape, 1, axis) \o <<pad>>
                  \o SubSeq(shape, axis + 2, Len(shape))
        pad_tensor == Fill(nshape, pad_value)
    IN  IF split.raised THEN [raised |-> TRUE, value |-> NoValue]
        ELSE [raised |-> FALSE, value |-> Concat(split.parts[1], pad_tensor, axis)]

Ranks == {1, 2}
PadValues == {0, 7}
\* the input tensors: entry number i (row-major, from 1) holds 10 + i
Values ==
    {[shape |-> sh, data |-> [i \in 1..Size(sh) |-> 10 + i]] :
        sh \in UNION {[1..rank -> 0..MaxLen] : rank \in Ranks}}

CallPadMaxInstances ==
    /\ fn = "idle"
    /\ \E value \in Values, instances \in -MaxLen..MaxLen + 1,
          pad_value \in PadValues :
         \E pad_axis \in -Len(value.shape)..Len(value.shape) - 1 :
              /\ fn' = "pad_max_instances"
              /\ args' = [value |-> value, instances |-> instances,
                          pad_value |-> pad_value, pad_axis |-> pad_axis]
              /\ result' = pad_max_instances(value, instances, pad_value, pad_axis)

(***************************************************************************)
(* letter_box.  Fractions are pairs <<numerator, denominator>>; a cast to   *)
(* int32 truncates toward zero.  The boxes go through box_ops, which is    *)
(* not part of this file, and are left out; the image is kept as the       *)
(* canvas side and the place of the original content in it.                *)
(***************************************************************************)
\* tf.cast(n / d, tf.int32) for d > 0
Trunc(n, d) == IF n >= 0 THEN n \div d ELSE -((-n) \div d)

\* tf.image.pad_to_bounding_box(image, offset_height, offset_width, th, tw)
pad_to_bounding_box(height, width, offset_height, offset_width, th, tw) ==
    [height |-> th, width |-> tw,
     content |-> [top |-> offset_height, left |-> offset_width,
                  height |-> height, width |-> width]]

letter_box(height, width, xs, ys, target) ==
    LET clipper == Max(width, height)
        target_dim == IF target.none THEN clipper ELSE target.dim
        pad_width_p == clipper - width
        pad_height_p == clipper - height
        pad_height == Trunc(pad_height_p * ys[1], ys[2])
        pad_width == Trunc(pad_width_p * xs[1], xs[2])
        image == pad_to_bounding_box(height, width, pad_height, pad_width,
                                     clipper, clipper)
        \* scale = target_dim / clipper
        pt_width == Trunc(pad_width * target_dim, clipper)
        pt_height == Trunc(pad_height * target_dim, clipper)
        pt_width_p == Trunc(pad_width_p * target_dim, clipper)
        pt_height_p == Trunc(pad_height_p * target_dim, clipper)
    IN  [image |-> [padded |-> image, resized |-> <<target_dim, target_dim>>],
         rect  |-> <<pt_height, pt_width,
                     target_dim - pt_height_p, target_dim - pt_width_p>>]

\* anchor fractions 0, 1/2 and 1
Anchors == {<<0, 2>>, <<1, 2>>, <<2, 2>>}
Targets == {[none |-> TRUE, dim |-> 0]}
           \cup {[none |-> FALSE, dim |-> t] : t \in 1..MaxTarget}

CallLetterBox ==
    /\ fn = "idle"
    /\ \E height \in 1..MaxImage, width \in 1..MaxImage,
          xs \in Anchors, ys \in Anchors, target \in Targets :
         /\ fn' = "letter_box"
         /\ args' = [height |-> height, width |-> width, xs |-> xs, ys |-> ys,
                     target_dim |-> target]
         /\ result' = letter_box(height, width, xs, ys, target)

(***************************************************************************)
(* gaussian_radius.  Numbers are exact fractions <<n, d>>, d > 0, not      *)
(* reduced; a float is [nan, v]; the square root is rounded down on a grid *)
(* that holds every fraction with the radicand's denominator, as a float   *)
(* square root is rounded on a grid that holds its operands.               *)
(***************************************************************************)
RInt(i) == <<i, 1>>
RNeg(a) == <<-a[1], a[2]>>
RAdd(a, b) ==
    IF a[2] = b[2] THEN <<a[1] + b[1], a[2]>>
    ELSE <<a[1] * b[2] + b[1] * a[2], a[2] * b[2]>>
RSub(a, b) == RAdd(a, RNeg(b))
RMul(a, b) == <<a[1] * b[1], a[2] * b[2]>>
\* a / b for b > 0
RDiv(a, b) == <<a[1] * b[2], a[2] * b[1]>>
RLeq(a, b) == a[1] * b[2] <= b[1] * a[2]

RECURSIVE ISqrtIn(_, _, _)
\* the largest s in lo..hi with s * s <= n, given lo * lo <= n
ISqrtIn(n, lo, hi) ==
    IF lo >= hi THEN lo
    ELSE LET mid == (lo + hi + 1) \div 2
         IN  IF mid * mid <= n THEN ISqrtIn(n, mid, hi)
             ELSE ISqrtIn(n, lo, mid - 1)

ISqrt(n) == ISqrtIn(n, 0, Min(n, 46340))

Finite(v) == [nan |-> FALSE, v |-> v]
NotANumber == [nan |-> TRUE, v |-> <<0, 1>>]

\* tf.sqrt: NaN for a negative argument
Sqrt(x) ==
    IF x[1] < 0 THEN NotANumber
    ELSE Finite(<<ISqrt(x[1] * x[2] * SqrtScale * SqrtScale), x[2] * SqrtScale>>)

\* the other branch of the quadratic formula
SmallestPositiveRootMinus(a, b, c) ==
    LET discriminant == Sqrt(RSub(RMul(b, b), RMul(RMul(RInt(4), a), c)))
    IN  IF discriminant.nan THEN NotANumber
        ELSE Finite(RDiv(RSub(RNeg(b), discriminant.v), RInt(2)))

_smallest_positive_root(a, b, c) ==
    LET discriminant == Sqrt(RSub(RMul(b, b), RMul(RMul(RInt(4), a), c)))
    IN  IF discriminant.nan THEN NotANumber
        ELSE Finite(RDiv(RAdd(RNeg(b), discriminant.v), RInt(2)))

\* tf.reduce_min([r1, r2, r3], axis=0): a NaN operand gives NaN
reduce_min(rs) ==
    IF \E k \in 1..Len(rs) : rs[k].nan THEN NotANumber
    ELSE rs[CHOOSE k \in 1..Len(rs) :
                \A j \in 1..Len(rs) :
                    /\ RLeq(rs[k].v, rs[j].v)
                    /\ (RLeq(rs[j].v, rs[k].v) => k <= j)]

gaussian_radius(det_size, min_overlap) ==
    LET height == RInt(det_size[1])
        width == RInt(det_size[2])
        a1 == RInt(1)
        b1 == RNeg(RAdd(height, width))
        c1 == RDiv(RMul(RMul(width, height), RSub(RInt(1), min_overlap)),
                   RAdd(RInt(1), min_overlap))
        r1 == _smallest_positive_root(a1, b1, c1)
        a2 == RInt(4)
        b2 == RMul(RInt(-2), RAdd(height, width))
        c2 == RMul(RMul(RSub(RInt(1), min_overlap), width), height)
        r2 == _smallest_positive_root(a2, b2, c2)
        a3 == RMul(RInt(4), min_overlap)
        b3 == RMul(RMul(RInt(2), min_overlap), RAdd(height, width))
        c3 == RMul(RMul(RSub(min_overlap, RInt(1)), width), height)
        r3 == _smallest_positive_root(a3, b3, c3)
    IN  [roots |-> <<r1, r2, r3>>, radius |-> reduce_min(<<r1, r2, r3>>)]

\* min_overlap p/q; p = q + 1 is an overlap above 1, which is not valid
CallGaussianRadius ==
    /\ fn = "idle"
    /\ \E height \in 1..MaxSize, width \in 1..MaxSize, q \in 1..MaxDen :
         \E p \in 1..q + 1 :
              /\ fn' = "gaussian_radius"
              /\ args' = [det_size |-> <<height, width>>, min_overlap |-> <<p, q>>]
              /\ result' = gaussian_radius(<<height, width>>, <<p, q>>)

Return ==
    /\ fn # "idle"
    /\ fn' = "idle"
    /\ args' = NoValue
    /\ result' = NoValue

Init ==
    /\ fn = "idle"
    /\ args = NoValue
    /\ result = NoValue

Next ==
    \/ CallCartesianProduct
    \/ CallGaussianPenalty
    \/ CallDrawGaussian
    \/ CallPadMaxInstances
    \/ CallLetterBox
    \/ CallGaussianRadius
    \/ Return

Spec == Init /\ [][Next]_vars

(***************************************************************************)
(* Properties of the rasterizer.                                           *)
(***************************************************************************)
IsDraw == fn = "draw_gaussian"
DrawH == args.hm_shape[1]
DrawW == args.hm_shape[2]
DrawC == args.hm_shape[3]
DrawClass == args.blob[1]
DrawX == args.blob[2]
DrawY == args.blob[3]
DrawR == args.blob[4]

CentreInside == 0 <= DrawX /\ DrawX < DrawW /\ 0 <= DrawY /\ DrawY < DrawH

FullyInside ==
    /\ DrawR <= DrawX /\ DrawX + DrawR < DrawW
    /\ DrawR <= DrawY /\ DrawY + DrawR < DrawH

\* the cells of the blob's square, in the blob's channel
Footprint ==
    {cell \in Cells(args.hm_shape) :
        /\ cell[1] \in DrawY - DrawR..DrawY + DrawR
        /\ cell[2] \in DrawX - DrawR..DrawX + DrawR
        /\ cell[3] = DrawClass}

IndexSet == {result.indices[k] : k \in 1..Len(result.indices)}

\* C2: a blob whose square lies inside the heatmap, drawn with a nonzero
\* scaling factor, gives a heatmap whose written cells and whose nonzero
\* cells are exactly the (2r+1) x (2r+1) cells of the square in the blob's
\* channel; every other cell is zero.
C2_FootprintInside ==
    (IsDraw /\ FullyInside /\ args.scaling_factor # 0) =>
        /\ ~result.raised
        /\ IndexSet = Footprint
        /\ Cardinality(Footprint) = (2 * DrawR + 1) * (2 * DrawR + 1)
        /\ \A cell \in Cells(args.hm_shape) :
              (result.heatmap[cell] # Zero) <=> (cell \in Footprint)

C2_Witness ==
    /\ IsDraw /\ FullyInside /\ DrawR >= 1 /\ DrawC >= 2
    /\ ~result.raised
    /\ result.heatmap[<<DrawY + DrawR, DrawX + DrawR, DrawClass>>] # Zero

\* C3: with the centre inside the heatmap (the corner x = 0, y = 0
\* included) and any radius, the call does not raise and every index given
\* to the scatter has 0 <= row < H, 0 <= col < W and channel = class.
C3_IndicesInBounds ==
    (IsDraw /\ CentreInside) =>
        /\ ~result.raised
        /\ \A k \in 1..Len(result.indices) :
              /\ 0 <= result.indices[k][1] /\ result.indices[k][1] < DrawH
              /\ 0 <= result.indices[k][2] /\ result.indices[k][2] < DrawW
              /\ result.indices[k][3] = DrawClass

C3_Witness ==
    /\ IsDraw /\ DrawX = 0 /\ DrawY = 0 /\ DrawR >= 1
    /\ DrawH > DrawR /\ DrawW > DrawR
    /\ ~result.raised
    /\ Len(result.indices) = (DrawR + 1) * (DrawR + 1)

CentreOutside == ~CentreInside

DegenerateMargin ==
    \/ result.margins.left <= 0 \/ result.margins.right <= 0
    \/ result.margins.top <= 0 \/ result.margins.bottom <= 0

\* C4: with the centre outside the heatmap, or with a clip margin that is
\* zero or negative, the call never raises and there are as many clipped
\* kernel values as generated indices (and, the claim goes on, the scatter
\* is empty and the heatmap all zero).
C4_OutsideNeverRaises ==
    (IsDraw /\ (CentreOutside \/ DegenerateMargin)) =>
        /\ ~result.raised
        /\ Len(result.updates) = Len(result.indices)

\* C5: the centre cell of the kernel is exactly 1.0 for every radius >= 0,
\* radius 0 included.
C5_KernelPeakIsOne ==
    (fn = "_gaussian_penalty") =>
        result[args.radius + 1][args.radius + 1] = One

\* s * exp(-(dx^2 + dy^2) / (2 (r/3)^2)), the kernel's value at an offset
Expected(dy, dx, r, s) == Scale(ExpVal(9 * (dx * dx + dy * dy), 2 * r * r), s)

\* C10: with the centre inside and radius >= 1, clipped or not, values and
\* indices have the same length and order: the value written at
\* (row, col, class) is scaling_factor * kernel[row - y + r, col - x + r],
\* the peak scaling_factor * 1.0 is written at (y, x, class), and no index
\* occurs twice.
C10_ValuesAlignWithIndices ==
    (IsDraw /\ CentreInside /\ DrawR >= 1) =>
        /\ ~result.raised
        /\ Len(result.updates) = Len(result.indices)
        /\ \A k \in 1..Len(result.indices) :
              LET row == result.indices[k][1]
                  col == result.indices[k][2]
                  val == Expected(row - DrawY, col - DrawX, DrawR,
                                  args.scaling_factor)
              IN  /\ result.updates[k] = val
                  /\ result.heatmap[result.indices[k]] = val
        /\ result.heatmap[<<DrawY, DrawX, DrawClass>>] = Scale(One, args.scaling_factor)
        /\ \A j, k \in 1..Len(result.indices) :
              result.indices[j] = result.indices[k] => j = k

C10_Witness ==
    /\ IsDraw /\ CentreInside /\ DrawR >= 1 /\ args.scaling_factor = 2
    /\ DrawX < DrawR /\ DrawY + DrawR >= DrawH /\ DrawX + DrawR < DrawW
    /\ ~result.raised
    /\ Len(result.indices) >= 4

(***************************************************************************)
(* Properties of the fixed-length padder.                                  *)
(***************************************************************************)
IsPad == fn = "pad_max_instances"
\* the padded axis, 0-based, as the caller means it
PadAxisOf == IF args.pad_axis < 0 THEN Len(args.value.shape) + args.pad_axis
             ELSE args.pad_axis
PadInputLen == args.value.shape[PadAxisOf + 1]

\* C1: for instances >= 0 the output has exactly `instances` entries along
\* pad_axis (given as a non-negative or a negative index), the other axes
\* keep their sizes, the first min(n, instances) entries are the input's
\* first entries in their order, and the remaining entries equal pad_value.
C1_PadToInstances ==
    (IsPad /\ args.instances >= 0) =>
        /\ ~result.raised
        /\ result.value.shape =
              [args.value.shape EXCEPT ![PadAxisOf + 1] = args.instances]
        /\ Len(result.value.data) = Size(result.value.shape)
        /\ \A i \in 1..Len(result.value.data) :
              LET idx == Unravel(i - 1, result.value.shape)
              IN  IF idx[PadAxisOf + 1] < Min(PadInputLen, args.instances)
                  THEN result.value.data[i] = At(args.value, idx)
                  ELSE result.value.data[i] = args.pad_value

C1_Witness ==
    /\ IsPad /\ args.pad_axis = -1 /\ Len(args.value.shape) = 2
    /\ args.value.shape[1] = 2 /\ PadInputLen = 2 /\ args.instances = 3
    /\ args.pad_value = 7
    /\ ~result.raised
    /\ result.value.data = <<11, 12, 7, 13, 14, 7>>

\* C9: for instances <= 0 (zero or negative) the call does not raise and
\* returns a tensor with 0 entries along pad_axis, the other axes unchanged.
C9_NonPositiveDropsAll ==
    (IsPad /\ args.instances <= 0) =>
        /\ ~result.raised
        /\ result.value.shape = [args.value.shape EXCEPT ![PadAxisOf + 1] = 0]

(***************************************************************************)
(* Properties of letter_box.                                               *)
(***************************************************************************)
IsLetterBox == fn = "letter_box"
LbSide == Max(args.height, args.width)
LbTarget == IF args.target_dim.none THEN LbSide ELSE args.target_dim.dim
Abs(i) == IF i < 0 THEN -i ELSE i

\* C7: the rectangle [top, left, bottom, right] is the region of the
\* target_dim x target_dim canvas that the original content occupies: with
\* S = max(H, W) and scale = target_dim / S, top and left are
\* trunc(trunc((S-H) ys) scale) and trunc(trunc((S-W) xs) scale), and
\* bottom - top is H scale and right - left is W scale, up to one pixel.
C7_RectIsContentRegion ==
    IsLetterBox =>
        LET top == result.rect[1]
            left == result.rect[2]
            bottom == result.rect[3]
            right == result.rect[4]
        IN  /\ top = Trunc(Trunc((LbSide - args.height) * args.ys[1], args.ys[2])
                           * LbTarget, LbSide)
            /\ left = Trunc(Trunc((LbSide - args.width) * args.xs[1], args.xs[2])
                            * LbTarget, LbSide)
            /\ Abs((bottom - top) * LbSide - args.height * LbTarget) <= LbSide
            /\ Abs((right - left) * LbSide - args.width * LbTarget) <= LbSide

(***************************************************************************)
(* Properties of gaussian_radius.                                          *)
(***************************************************************************)
IsRadius == fn = "gaussian_radius"
ValidOverlap == 0 < args.min_overlap[1] /\ args.min_overlap[1] <= args.min_overlap[2]

\* C8: for h > 0, w > 0 and 0 < m <= 1 each of the three discriminants is
\* non-negative, so none of the three roots is NaN, and the result, the
\* minimum of the three roots, is a number and is never negative.
C8_RadiusNonNegative ==
    (IsRadius /\ ValidOverlap) =>
        /\ \A k \in 1..3 : ~result.roots[k].nan
        /\ ~result.radius.nan
        /\ result.radius.v[1] >= 0 /\ result.radius.v[2] > 0
        /\ \A k \in 1..3 : RLeq(result.radius.v, result.roots[k].v)

C8_Witness ==
    /\ IsRadius /\ ValidOverlap
    /\ args.det_size[1] # args.det_size[2]
    /\ args.min_overlap[1] < args.min_overlap[2]
    /\ ~result.radius.nan
    /\ result.radius = result.roots[3]
    /\ result.radius.v[1] > 0

(***************************************************************************)
(* Properties of cartesian_product.                                        *)
(***************************************************************************)
IsProduct == fn = "cartesian_product"
ProductLens == [k \in 1..Len(args.tensors) |-> Len(args.tensors[k])]
\* every choice of one position (0-based) in each input sequence
ProductChoices ==
    {c \in [1..Len(args.tensors) -> 0..MaxSeqLen - 1] :
        \A k \in 1..Len(args.tensors) : c[k] < ProductLens[k]}

RECURSIVE RowNumber(_, _, _)
\* (...(c[1] * len[2] + c[2]) * len[3] + ...) + c[n]: the place of a choice
\* in lexicographic order, the last sequence varying fastest
RowNumber(c, lens, k) ==
    IF k = 0 THEN 0 ELSE RowNumber(c, lens, k - 1) * lens[k] + c[k]

RECURSIVE Product(_, _)
Product(lens, k) == IF k = 0 THEN 1 ELSE lens[k] * Product(lens, k - 1)

\* C6: with repeat = 1 the result has len(s1) * ... * len(sn) rows and n
\* columns, and row number i1 * len(s2) * ... * len(sn) + ... + in is
\* (s1[i1], ..., sn[in]): each combination once, in lexicographic order with
\* the last sequence varying fastest.
C6_ProductOrder ==
    (IsProduct /\ args.repeat = 1) =>
        LET n == Len(args.tensors) IN
        /\ Len(result) = Product(ProductLens, n)
        /\ \A r \in 1..Len(result) : Len(result[r]) = n
        /\ \A c \in ProductChoices :
              result[RowNumber(c, ProductLens, n) + 1] =
                  [k \in 1..n |-> args.tensors[k][c[k] + 1]]
        /\ \A c, e \in ProductChoices :
              RowNumber(c, ProductLens, n) = RowNumber(e, ProductLens, n) => c = e

C6_Witness ==
    /\ IsProduct /\ args.repeat = 1
    /\ args.tensors = << <<0, 1>>, <<0, 1, 2>> >>
    /\ result = << <<0, 0>>, <<0, 1>>, <<0, 2>>, <<1, 0>>, <<1, 1>>, <<1, 2>> >>

====
